---------------------------- MODULE Spec2Model ----------------------------
(***************************************************************************)
(* Model of the configuration resolver and of the persisted state store of *)
(* matrix-bot (src/src/config.rs).                                         *)
(*                                                                         *)
(* SpecStore   : one persisted-state record (session.ron,                  *)
(*               matrix_listener.ron or matrix_responder.ron), the process *)
(*               that loads, mutates and saves it, and the file it lives   *)
(*               in, byte by byte.                                         *)
(* SpecCooldown: a loaded ListenerStorage and the correction cooldown.     *)
(* SpecConfig  : a RawConfig and the functions that resolve it to a Config.*)
(* SpecWriters : two calls of save_storage on one file, step by step.      *)
(***************************************************************************)
EXTENDS Integers, Sequences, FiniteSets, TLC

VARIABLES
    kind,       \* which of the three storage structs this run is about
    disk,       \* the backing file: [exists, bytes]
    mem,        \* the process's in-memory value: [loaded, val]
    now,        \* SystemTime::now(), in seconds since UNIX_EPOCH
    res,        \* what the last call returned
    issued,     \* every transaction id next_txn_id has returned, in order
    pending,    \* ids returned since the last successful save of this process
    lostIds,    \* ids that were pending when the process last restarted
    torn,       \* how many saves have failed after changing the file
    breach,     \* a restart has discarded an allocation that was never saved
    fresh       \* the file is the one a default-creating load wrote, untouched since

storeVars ==
    <<kind, disk, mem, now, res, issued, pending, lostIds, torn, breach, fresh>>

VARIABLES
    toml,       \* the RawConfig that config.toml deserializes to, and the build
    called      \* the last function of the resolver that was called: [fn, ret]

configVars == <<toml, called>>

VARIABLES
    writer      \* the calls of save_storage in progress: [pc, self, ron, pos]

vars == <<storeVars, configVars, writer>>

-----------------------------------------------------------------------------
(* Bytes of a file are one-character strings.                              *)

Min(a, b) == IF a < b THEN a ELSE b

StartsWith(s, p) == Len(s) >= Len(p) /\ SubSeq(s, 1, Len(p)) = p

Drop(s, n) == SubSeq(s, n + 1, Len(s))

Digits == <<"0", "1", "2", "3", "4", "5", "6", "7", "8", "9">>

IsDigit(c) == \E d \in 1..10 : Digits[d] = c

DigitChar(d) == Digits[d + 1]

DigitVal(c) == (CHOOSE d \in 1..10 : Digits[d] = c) - 1

-----------------------------------------------------------------------------
(* u64: four 16-bit limbs, least significant first.                        *)

LimbBase == 65536

U64(n) == <<n, 0, 0, 0>>

U64Max == <<LimbBase - 1, LimbBase - 1, LimbBase - 1, LimbBase - 1>>

U64Zero == U64(0)

\* a + 1 on 64 bits: [val, overflow]
U64Inc(a) ==
    LET c1 == IF a[1] = LimbBase - 1 THEN 1 ELSE 0
        c2 == IF c1 = 1 /\ a[2] = LimbBase - 1 THEN 1 ELSE 0
        c3 == IF c2 = 1 /\ a[3] = LimbBase - 1 THEN 1 ELSE 0
        c4 == IF c3 = 1 /\ a[4] = LimbBase - 1 THEN 1 ELSE 0
    IN  [val |-> << (a[1] + 1) % LimbBase,
                    (a[2] + c1) % LimbBase,
                    (a[3] + c2) % LimbBase,
                    (a[4] + c3) % LimbBase >>,
         overflow |-> c4 = 1]

\* a < b on 64 bits
U64Less(a, b) ==
    \/ a[4] < b[4]
    \/ a[4] = b[4] /\ a[3] < b[3]
    \/ a[4] = b[4] /\ a[3] = b[3] /\ a[2] < b[2]
    \/ a[4] = b[4] /\ a[3] = b[3] /\ a[2] = b[2] /\ a[1] < b[1]

\* a divided by ten: [q, r]
U64DivMod10(a) ==
    LET n4 == a[4]
        n3 == (n4 % 10) * LimbBase + a[3]
        n2 == (n3 % 10) * LimbBase + a[2]
        n1 == (n2 % 10) * LimbBase + a[1]
    IN  [q |-> <<n1 \div 10, n2 \div 10, n3 \div 10, n4 \div 10>>, r |-> n1 % 10]

\* a * 10 + d on 64 bits: [val, overflow]
U64MulAdd10(a, d) ==
    LET n1 == a[1] * 10 + d
        n2 == a[2] * 10 + (n1 \div LimbBase)
        n3 == a[3] * 10 + (n2 \div LimbBase)
        n4 == a[4] * 10 + (n3 \div LimbBase)
    IN  [val |-> <<n1 % LimbBase, n2 % LimbBase, n3 % LimbBase, n4 % LimbBase>>,
         overflow |-> n4 >= LimbBase]

\* u64::to_string: the decimal digits, most significant first, no leading zero
RECURSIVE U64ToString(_)
U64Digits(dm) ==
    IF dm.q = U64Zero
    THEN <<DigitChar(dm.r)>>
    ELSE Append(U64ToString(dm.q), DigitChar(dm.r))

U64ToString(a) == U64Digits(U64DivMod10(a))

\* the value of a string of decimal digits: [ok, val]; not ok above u64::MAX
U64Shift(hi, ma) ==
    IF hi.ok /\ ~ma.overflow
    THEN [ok |-> TRUE, val |-> ma.val]
    ELSE [ok |-> FALSE, val |-> U64Zero]

RECURSIVE U64FromDigits(_)
U64Push(hi, d) == U64Shift(hi, U64MulAdd10(hi.val, d))

U64FromDigits(ds) ==
    IF ds = <<>>
    THEN [ok |-> TRUE, val |-> U64Zero]
    ELSE U64Push(U64FromDigits(SubSeq(ds, 1, Len(ds) - 1)), DigitVal(ds[Len(ds)]))

-----------------------------------------------------------------------------
(* The three storage structs and their RON text (ron::to_string,           *)
(* ron::from_str with the serde derives of the structs).                   *)

Kinds == {"session", "listener", "responder"}

None == <<>>

Some(x) == <<x>>

Quote == "\""

SessionOpen == <<"(", "a", "c", "c", "e", "s", "s", "_", "t", "o", "k", "e", "n", ":">>

ListenerOpen == <<"(", "l", "a", "s", "t", "_", "s", "y", "n", "c", ":">>

ListenerMid == <<",", "l", "a", "s", "t", "_", "c", "o", "r", "r", "e", "c", "t", "i", "o", "n", "_", "t", "i", "m", "e", ":", "{">>

SecsKey == <<":", "(", "s", "e", "c", "s", "_", "s", "i", "n", "c", "e", "_", "e", "p", "o", "c", "h", ":">>

NanosKey == <<",", "n", "a", "n", "o", "s", "_", "s", "i", "n", "c", "e", "_", "e", "p", "o", "c", "h", ":">>

ResponderOpen == <<"(", "l", "a", "s", "t", "_", "t", "x", "n", "_", "i", "d", ":">>

NoneLit == <<"N", "o", "n", "e">>

SomeOpen == <<"S", "o", "m", "e", "(">>

EmptyMap == [r \in {} |-> 0]

\* Default::default() of each struct
DefaultOf(k) ==
    CASE k = "session"   -> [access_token |-> None]
      [] k = "listener"  -> [last_sync |-> None, last_correction_time |-> EmptyMap]
      [] k = "responder" -> [last_txn_id |-> U64Zero]

\* a SystemTime of the model (whole seconds) as the u64 serde writes
TimeToU64(t) == <<t % LimbBase, t \div LimbBase, 0, 0>>

TimeOfU64(v) == CASE v[3] = 0 /\ v[4] = 0 /\ v[2] < 32768 -> v[1] + v[2] * LimbBase

SerOptStr(o) ==
    IF o = None THEN NoneLit ELSE SomeOpen \o <<Quote>> \o o[1] \o <<Quote, ")">>

SerEntry(r, t) ==
    <<Quote>> \o r \o <<Quote>> \o SecsKey \o U64ToString(TimeToU64(t))
        \o NanosKey \o <<"0">> \o <<")">>

RECURSIVE SerEntries(_, _)
SerEntries(m, ord) ==
    IF ord = <<>>
    THEN <<>>
    ELSE SerEntry(ord[1], m[ord[1]])
            \o (IF Len(ord) > 1 THEN <<",">> ELSE <<>>)
            \o SerEntries(m, Tail(ord))

\* the orders in which a HashMap may hand out its keys
Orders(m) ==
    {o \in [1..Cardinality(DOMAIN m) -> DOMAIN m] :
        \A i, j \in DOMAIN o : i # j => o[i] # o[j]}

\* ron::to_string(self); ord is the iteration order of last_correction_time
RonToString(k, v, ord) ==
    CASE k = "session"   -> SessionOpen \o SerOptStr(v.access_token) \o <<")">>
      [] k = "listener"  -> ListenerOpen \o SerOptStr(v.last_sync) \o ListenerMid
                                \o SerEntries(v.last_correction_time, ord) \o <<"}", ")">>
      [] k = "responder" -> ResponderOpen \o U64ToString(v.last_txn_id) \o <<")">>

OrdersOf(k, v) == IF k = "listener" THEN Orders(v.last_correction_time) ELSE {<<>>}

Fail == [ok |-> FALSE, val |-> <<>>, rest |-> <<>>]

Parsed(v, r) == [ok |-> TRUE, val |-> v, rest |-> r]

StrUpTo(body, e) == Parsed(SubSeq(body, 1, e - 1), Drop(body, e))

\* body: the text after an opening quote; idx: where its quotes are
StrBody(body, idx) ==
    IF idx = {}
    THEN Fail
    ELSE StrUpTo(body, CHOOSE i \in idx : \A j \in idx : i <= j)

QuotesIn(body) == {i \in 1..Len(body) : body[i] = Quote}

ParseStr(s) ==
    IF s = <<>> \/ s[1] # Quote
    THEN Fail
    ELSE StrBody(Drop(s, 1), QuotesIn(Drop(s, 1)))

SomeClose(p) ==
    IF p.ok /\ StartsWith(p.rest, <<")">>)
    THEN Parsed(Some(p.val), Drop(p.rest, 1))
    ELSE Fail

ParseOptStr(s) ==
    IF StartsWith(s, NoneLit)
    THEN Parsed(None, Drop(s, Len(NoneLit)))
    ELSE IF StartsWith(s, SomeOpen)
         THEN SomeClose(ParseStr(Drop(s, Len(SomeOpen))))
         ELSE Fail

DigitPrefix(s) ==
    CHOOSE k \in 0..Len(s) :
        /\ \A i \in 1..k : IsDigit(s[i])
        /\ k = Len(s) \/ ~IsDigit(s[k + 1])

NumValue(v, rest) == IF v.ok THEN Parsed(v.val, rest) ELSE Fail

NumOf(s, n) ==
    IF n = 0 THEN Fail ELSE NumValue(U64FromDigits(SubSeq(s, 1, n)), Drop(s, n))

ParseNum(s) == NumOf(s, DigitPrefix(s))

\* RoomId::parse: the '!' sigil and a server part
IsRoomId(r) == r # <<>> /\ r[1] = "!" /\ \E i \in 2..Len(r) : r[i] = ":"

\* "room":(secs_since_epoch:S,nanos_since_epoch:N)
EntryClose(room, secs, nanos) ==
    IF nanos.ok /\ StartsWith(nanos.rest, <<")">>) /\ IsRoomId(room)
    THEN Parsed([room |-> room, time |-> TimeOfU64(secs)], Drop(nanos.rest, 1))
    ELSE Fail

EntryNanos(room, secs) ==
    IF secs.ok /\ StartsWith(secs.rest, NanosKey)
    THEN EntryClose(room, secs.val, ParseNum(Drop(secs.rest, Len(NanosKey))))
    ELSE Fail

EntrySecs(key) ==
    IF key.ok /\ StartsWith(key.rest, SecsKey)
    THEN EntryNanos(key.val, ParseNum(Drop(key.rest, Len(SecsKey))))
    ELSE Fail

ParseEntry(s) == EntrySecs(ParseStr(s))

\* HashMap::insert
Insert(m, k, v) == [x \in DOMAIN m \cup {k} |-> IF x = k THEN v ELSE m[x]]

RECURSIVE ParseEntries(_, _)
EntriesRest(rest, acc) ==
    IF StartsWith(rest, <<",">>)
    THEN ParseEntries(Drop(rest, 1), acc)
    ELSE IF StartsWith(rest, <<"}">>)
         THEN Parsed(acc, Drop(rest, 1))
         ELSE Fail

EntriesNext(e, acc) ==
    IF e.ok THEN EntriesRest(e.rest, Insert(acc, e.val.room, e.val.time)) ELSE Fail

ParseEntries(s, acc) ==
    IF StartsWith(s, <<"}">>)
    THEN Parsed(acc, Drop(s, 1))
    ELSE EntriesNext(ParseEntry(s), acc)

SessionOf(t) == IF t.ok THEN Parsed([access_token |-> t.val], t.rest) ELSE Fail

ResponderOf(t) == IF t.ok THEN Parsed([last_txn_id |-> t.val], t.rest) ELSE Fail

ListenerOf(sync, m) ==
    IF m.ok
    THEN Parsed([last_sync |-> sync, last_correction_time |-> m.val], m.rest)
    ELSE Fail

ListenerMap(t) ==
    IF t.ok /\ StartsWith(t.rest, ListenerMid)
    THEN ListenerOf(t.val, ParseEntries(Drop(t.rest, Len(ListenerMid)), EmptyMap))
    ELSE Fail

ParseStruct(k, bytes) ==
    CASE k = "session" ->
            IF StartsWith(bytes, SessionOpen)
            THEN SessionOf(ParseOptStr(Drop(bytes, Len(SessionOpen))))
            ELSE Fail
      [] k = "listener" ->
            IF StartsWith(bytes, ListenerOpen)
            THEN ListenerMap(ParseOptStr(Drop(bytes, Len(ListenerOpen))))
            ELSE Fail
      [] k = "responder" ->
            IF StartsWith(bytes, ResponderOpen)
            THEN ResponderOf(ParseNum(Drop(bytes, Len(ResponderOpen))))
            ELSE Fail

StructEnd(k, p) ==
    IF p.ok /\ p.rest = <<")">>
    THEN [ok |-> TRUE, val |-> p.val]
    ELSE [ok |-> FALSE, val |-> DefaultOf(k)]

\* ron::from_str(&contents): [ok, val]; trailing characters are an error
RonFromStr(k, bytes) == StructEnd(k, ParseStruct(k, bytes))

-----------------------------------------------------------------------------
(* The file system: File::open, OpenOptions::open, write_all.              *)

NoFile == [exists |-> FALSE, bytes |-> <<>>]

FileOf(b) == [exists |-> TRUE, bytes |-> b]

\* OpenOptions::new().write(true).create(true) then write_all of w: the file is
\* created when missing, it is not truncated, and w goes over its first bytes
Written(d, w) == FileOf(w \o Drop(d.bytes, Min(Len(w), Len(d.bytes))))

\* how far from either end of the text a failing write_all may stop
MaxCutHead == 2

MaxCutTail == 3

TornCuts(b) == {n \in 0..(Len(b) - 1) : n < MaxCutHead \/ n >= Len(b) - MaxCutTail}

\* what the file system does to one save: the open fails, or write_all stops
\* after n bytes, or (n = Len) everything is written; ron says that
\* ron::to_string returned the text
SaveIo(b) ==
    {[ron |-> TRUE, open |-> FALSE, n |-> 0]}
        \cup {[ron |-> TRUE, open |-> TRUE, n |-> n] : n \in TornCuts(b) \cup {Len(b)}}

\* ron::to_string(self) returning Err: serde refuses a SystemTime that lies
\* before UNIX_EPOCH, so only a listener record that holds a time can meet it;
\* the clock of the model has no such time, the refusal is an outcome of the
\* call
RonIo(k, v) ==
    IF k = "listener" /\ DOMAIN v.last_correction_time # {}
    THEN {[ron |-> FALSE, open |-> FALSE, n |-> 0]}
    ELSE {}

\* save_storage(&self) with a plausible fault: the open truncates the file
save_storage_truncating(d, k, v, ord, sio) ==
    IF ~sio.ron
    THEN [out |-> "err_format", disk |-> d]
    ELSE IF ~sio.open
         THEN [out |-> "err_open", disk |-> d]
         ELSE IF sio.n < Len(RonToString(k, v, ord))
              THEN [out |-> "err_write",
                    disk |-> FileOf(SubSeq(RonToString(k, v, ord), 1, sio.n))]
              ELSE [out |-> "ok", disk |-> FileOf(RonToString(k, v, ord))]

\* save_storage(&self): [out, disk]
save_storage(d, k, v, ord, sio) ==
    LET ron == RonToString(k, v, ord)
    IN  IF ~sio.ron
        THEN [out |-> "err_format", disk |-> d]
        ELSE IF ~sio.open
             THEN [out |-> "err_open", disk |-> d]
             ELSE IF sio.n < Len(ron)
                  THEN [out |-> "err_write", disk |-> Written(d, SubSeq(ron, 1, sio.n))]
                  ELSE [out |-> "ok", disk |-> Written(d, ron)]

\* what File::open and read_to_string may answer for a file in state d
OpenKinds(d) == (IF d.exists THEN {"ok", "read_error"} ELSE {"not_found"})
                    \cup {"permission_denied", "other"}

\* load_storage() with a plausible fault: the default is returned but not saved
load_storage_unsaved(d, k, open, sio) ==
    CASE open = "not_found" ->
            [out |-> "ok", path |-> "default", val |-> Some(DefaultOf(k)), disk |-> d]
      [] open = "permission_denied" ->
            [out |-> "err_permission_denied", path |-> "open", val |-> None, disk |-> d]
      [] open = "other" ->
            [out |-> "err_open", path |-> "open", val |-> None, disk |-> d]
      [] open = "read_error" ->
            [out |-> "err_read", path |-> "found", val |-> None, disk |-> d]
      [] open = "ok" ->
            IF RonFromStr(k, d.bytes).ok
            THEN [out |-> "ok", path |-> "found",
                  val |-> Some(RonFromStr(k, d.bytes).val), disk |-> d]
            ELSE [out |-> "err_parse", path |-> "found", val |-> None, disk |-> d]

\* load_storage() with a plausible fault: content that does not deserialize
\* is answered with the default
load_storage_forgiving(d, k, open, sio) ==
    CASE open = "not_found" ->
            IF save_storage(d, k, DefaultOf(k), <<>>, sio).out = "ok"
            THEN [out |-> "ok", path |-> "default", val |-> Some(DefaultOf(k)),
                  disk |-> save_storage(d, k, DefaultOf(k), <<>>, sio).disk]
            ELSE [out |-> "err_save_default", path |-> "default", val |-> None,
                  disk |-> save_storage(d, k, DefaultOf(k), <<>>, sio).disk]
      [] open = "permission_denied" ->
            [out |-> "err_permission_denied", path |-> "open", val |-> None, disk |-> d]
      [] open = "other" ->
            [out |-> "err_open", path |-> "open", val |-> None, disk |-> d]
      [] open = "read_error" ->
            [out |-> "err_read", path |-> "found", val |-> None, disk |-> d]
      [] open = "ok" ->
            IF RonFromStr(k, d.bytes).ok
            THEN [out |-> "ok", path |-> "found",
                  val |-> Some(RonFromStr(k, d.bytes).val), disk |-> d]
            ELSE [out |-> "ok", path |-> "found", val |-> Some(DefaultOf(k)), disk |-> d]

\* load_storage() with a plausible fault: every failure of File::open is
\* taken for a missing file
load_storage_denied_is_missing(d, k, open, sio) ==
    CASE open \in {"not_found", "permission_denied", "other"} ->
            IF save_storage(d, k, DefaultOf(k), <<>>, sio).out = "ok"
            THEN [out |-> "ok", path |-> "default", val |-> Some(DefaultOf(k)),
                  disk |-> save_storage(d, k, DefaultOf(k), <<>>, sio).disk]
            ELSE [out |-> "err_save_default", path |-> "default", val |-> None,
                  disk |-> save_storage(d, k, DefaultOf(k), <<>>, sio).disk]
      [] open = "read_error" ->
            [out |-> "err_read", path |-> "found", val |-> None, disk |-> d]
      [] open = "ok" ->
            IF RonFromStr(k, d.bytes).ok
            THEN [out |-> "ok", path |-> "found",
                  val |-> Some(RonFromStr(k, d.bytes).val), disk |-> d]
            ELSE [out |-> "err_parse", path |-> "found", val |-> None, disk |-> d]

\* load_storage(): [out, path, val, disk]; val is Some(value) or None
load_storage(d, k, open, sio) ==
    CASE open = "not_found" ->
            LET ron == DefaultOf(k)
                sv  == save_storage(d, k, ron, <<>>, sio)
            IN  IF sv.out = "ok"
                THEN [out |-> "ok", path |-> "default", val |-> Some(ron), disk |-> sv.disk]
                ELSE [out |-> "err_save_default", path |-> "default", val |-> None,
                      disk |-> sv.disk]
      [] open = "permission_denied" ->
            [out |-> "err_permission_denied", path |-> "open", val |-> None, disk |-> d]
      [] open = "other" ->
            [out |-> "err_open", path |-> "open", val |-> None, disk |-> d]
      [] open = "read_error" ->
            [out |-> "err_read", path |-> "found", val |-> None, disk |-> d]
      [] open = "ok" ->
            LET ron == RonFromStr(k, d.bytes)
            IN  IF ron.ok
                THEN [out |-> "ok", path |-> "found", val |-> Some(ron.val), disk |-> d]
                ELSE [out |-> "err_parse", path |-> "found", val |-> None, disk |-> d]

-----------------------------------------------------------------------------
(* The operations on the loaded structs.                                   *)

CooldownSecs == 300

\* next_txn_id() with a plausible fault: the incremented counter is returned
\* but not stored
next_txn_id_stale(self, checks) ==
    IF U64Inc(self.last_txn_id).overflow /\ checks
    THEN [out |-> "panic", self |-> self, id |-> None]
    ELSE [out |-> "ok", self |-> self,
          id |-> Some(U64ToString(U64Inc(self.last_txn_id).val))]

\* ResponderStorage::next_txn_id(&mut self); checks: the build has overflow
\* checks (a debug build panics on overflow, a release build wraps)
next_txn_id(self, checks) ==
    LET inc == U64Inc(self.last_txn_id)
    IN  IF inc.overflow /\ checks
        THEN [out |-> "panic", self |-> self, id |-> None]
        ELSE [out |-> "ok", self |-> [last_txn_id |-> inc.val],
              id |-> Some(U64ToString(inc.val))]

\* correction_time_cooldown() with a plausible fault: > for >=
correction_time_cooldown_strict(self, room_id, t) ==
    IF room_id \in DOMAIN self.last_correction_time
    THEN IF t >= self.last_correction_time[room_id]
         THEN t - self.last_correction_time[room_id] > CooldownSecs
         ELSE FALSE
    ELSE TRUE

\* ListenerStorage::correction_time_cooldown(&self, room_id) at time t
correction_time_cooldown(self, room_id, t) ==
    IF room_id \in DOMAIN self.last_correction_time
    THEN LET stored == self.last_correction_time[room_id]
         IN  IF t >= stored THEN t - stored >= CooldownSecs ELSE FALSE
    ELSE TRUE

-----------------------------------------------------------------------------
(* The configuration resolver: one function per feature of RawConfig.      *)
(* Every function returns [out, val]: out is "ok", the error it returned   *)
(* with Err(anyhow!(..)), or "panic"; val is Some(value) with "ok".        *)

Ok(v) == [out |-> "ok", val |-> Some(v)]

Err(e) == [out |-> e, val |-> None]

Panic == [out |-> "panic", val |-> None]

EmptyStrMap == [k \in {} |-> ""]

\* str::starts_with(c)
starts_with(s, c) == s # <<>> /\ s[1] = c

\* str::replace(c, ""): s without any c
RECURSIVE Without(_, _)
Without(s, c) ==
    IF s = <<>>
    THEN <<>>
    ELSE (IF s[1] = c THEN <<>> ELSE <<s[1]>>) \o Without(Tail(s), c)

\* <Uri as FromStr>::from_str: not empty, no blank or control character
UriParse(s) ==
    IF s = <<>> \/ \E i \in 1..Len(s) : s[i] \in {" ", "\n"}
    THEN Err("invalid_uri")
    ELSE Ok([uri |-> s])

\* HeaderValue::from_str: visible ASCII only
HeaderValueFromStr(s) ==
    IF \E i \in 1..Len(s) : s[i] \in {"\n"}
    THEN Err("invalid_header_value")
    ELSE Ok([header |-> s])

\* UserId::parse: the '@' sigil, a localpart, ':' and a server name
UserIdParse(s) ==
    IF starts_with(s, "@") /\ \E i \in 2..(Len(s) - 1) : s[i] = ":"
    THEN Ok(s)
    ELSE Err("invalid_user_id")

load_github_settings(t) ==
    IF t.searchable_repos # None
    THEN IF t.github_authentication # None
         THEN Ok([repos |-> t.searchable_repos[1],
                  gh_access_token |-> t.github_authentication[1].access_token])
         ELSE Err("repos_without_token")
    ELSE Ok([repos |-> EmptyStrMap, gh_access_token |-> ""])

\* v.parse().expect("Invalid URL in linker settings") over the whole map
LinksOf(d) ==
    IF \E k \in DOMAIN d : UriParse(d[k]).out # "ok"
    THEN Panic
    ELSE Ok([k \in DOMAIN d |-> UriParse(d[k]).val[1]])

LinkerOf(m, links) ==
    IF links.out = "ok" THEN Ok([linkers |-> m, links |-> links.val[1]]) ELSE links

load_linker_settings(t) ==
    IF t.linkable_urls # None
    THEN IF t.link_matchers # None
         THEN IF DOMAIN t.linkable_urls[1] # {}
              THEN LinkerOf(t.link_matchers[1], LinksOf(t.linkable_urls[1]))
              ELSE Err("link_matchers_without_urls")
         ELSE Ok([linkers |-> {}, links |-> EmptyStrMap])
    ELSE Ok([linkers |-> {}, links |-> EmptyStrMap])

load_text_expansions(t) ==
    IF t.text_expansion # None THEN t.text_expansion[1] ELSE EmptyStrMap

load_unit_conversion_settings(t) ==
    IF t.unit_conversion_exclusion # None
    THEN {<<" ">> \o set : set \in t.unit_conversion_exclusion[1]}
    ELSE {}

Insensitive(spelling) == [kind |-> "SpellCheckInsensitive", spelling |-> spelling]

Sensitive(spelling) == [kind |-> "SpellCheckSensitive", spelling |-> spelling]

\* Spk with a plausible fault: the second loop runs first
Spk_sensitive_first(i, s) ==
    [n \in 1..Len(s) |-> Sensitive(s[n])] \o [n \in 1..Len(i) |-> Insensitive(i[n])]

\* the two for loops that push onto spk
Spk(i, s) ==
    [n \in 1..Len(i) |-> Insensitive(i[n])] \o [n \in 1..Len(s) |-> Sensitive(s[n])]

\* load_spell_correct_settings() with a plausible fault: the exclusion set is
\* required like the other three fields
load_spell_correct_settings_strict(t) ==
    IF t.enable_corrections
    THEN IF t.insensitive_corrections = None
         THEN Err("no_insensitive_corrections")
         ELSE IF t.sensitive_corrections = None
         THEN Err("no_sensitive_corrections")
         ELSE IF t.correction_text = None
         THEN Err("no_correction_text")
         ELSE IF t.correction_exclusion = None
         THEN Err("no_correction_exclusion")
         ELSE Ok([incorrect_spellings |->
                     Spk(t.insensitive_corrections[1], t.sensitive_corrections[1]),
                  correction_text |-> t.correction_text[1],
                  correction_exclusion |-> t.correction_exclusion[1]])
    ELSE Ok([incorrect_spellings |-> <<>>, correction_text |-> "",
             correction_exclusion |-> {}])

\* load_spell_correct_settings() with a plausible fault: enable_corrections
\* is not looked at when all the fields are there
load_spell_correct_settings_unflagged(t) ==
    IF t.insensitive_corrections # None /\ t.sensitive_corrections # None
        /\ t.correction_text # None
    THEN Ok([incorrect_spellings |->
                Spk(t.insensitive_corrections[1], t.sensitive_corrections[1]),
             correction_text |-> t.correction_text[1],
             correction_exclusion |->
                IF t.correction_exclusion # None
                THEN t.correction_exclusion[1]
                ELSE {}])
    ELSE IF ~t.enable_corrections
    THEN Ok([incorrect_spellings |-> <<>>, correction_text |-> "",
             correction_exclusion |-> {}])
    ELSE IF t.insensitive_corrections = None
    THEN Err("no_insensitive_corrections")
    ELSE IF t.sensitive_corrections = None
    THEN Err("no_sensitive_corrections")
    ELSE Err("no_correction_text")

load_spell_correct_settings(t) ==
    IF t.enable_corrections
    THEN IF t.insensitive_corrections # None
         THEN IF t.sensitive_corrections # None
              THEN IF t.correction_text # None
                   THEN IF t.correction_exclusion # None
                        THEN Ok([incorrect_spellings |->
                                    Spk(t.insensitive_corrections[1],
                                        t.sensitive_corrections[1]),
                                 correction_text |-> t.correction_text[1],
                                 correction_exclusion |->
                                    IF t.correction_exclusion[1] # {}
                                    THEN t.correction_exclusion[1]
                                    ELSE {}])
                        ELSE Ok([incorrect_spellings |->
                                    Spk(t.insensitive_corrections[1],
                                        t.sensitive_corrections[1]),
                                 correction_text |-> t.correction_text[1],
                                 correction_exclusion |-> {}])
                   ELSE Err("no_correction_text")
              ELSE Err("no_sensitive_corrections")
         ELSE Err("no_insensitive_corrections")
    ELSE Ok([incorrect_spellings |-> <<>>, correction_text |-> "",
             correction_exclusion |-> {}])

\* load_admin_settings() with a plausible fault: an empty set is refused
load_admin_settings_nonempty(t) ==
    IF t.authorized_users # None /\ t.authorized_users # Some({})
    THEN Ok(t.authorized_users[1])
    ELSE Err("no_authorized_users")

load_admin_settings(t) ==
    IF t.authorized_users # None
    THEN Ok(t.authorized_users[1])
    ELSE Err("no_authorized_users")

load_help_settings(t) == IF t.help_rooms # None THEN t.help_rooms[1] ELSE {}

load_ban_room_settings(t) == IF t.ban_rooms # None THEN t.ban_rooms[1] ELSE {}

PctAll == <<"%", "a", "l", "l">>

\* the users of the groups, group after group in the map's iteration order
RECURSIVE UsersIn(_, _)
UsersIn(v, order) ==
    IF order = <<>> THEN <<>> ELSE v[Head(order)] \o UsersIn(v, Tail(order))

\* the first user of a loop that makes the loop return (returns: the
\* positions of the users that do), 0 when none does
FirstReturn(returns) ==
    IF returns # {} THEN CHOOSE i \in returns : \A j \in returns : i <= j ELSE 0

\* first loop: the users that ping, each parsed as a UserId
CollectReturns(user) ==
    user = PctAll \/ (starts_with(user, "@") /\ UserIdParse(user).out # "ok")

CollectErr(user) ==
    IF user = PctAll THEN Err("reserved_group_name") ELSE UserIdParse(user)

\* the users a group alias stands for: the '@' members of the named group
AtUsers(g) == {g[i] : i \in {n \in 1..Len(g) : starts_with(g[n], "@")}}

\* second loop: expand every user of every group
ExpandReturns(v, user) ==
    \/ user = PctAll
    \/ /\ starts_with(user, "%")
       /\ \/ Without(user, "%") \notin DOMAIN v
          \/ \E u \in AtUsers(v[Without(user, "%")]) : UserIdParse(u).out # "ok"
    \/ /\ ~starts_with(user, "%")
       /\ UserIdParse(user).out # "ok"

ExpandErr(v, user) ==
    IF user = PctAll
    THEN Err("reserved_group_name")
    ELSE IF starts_with(user, "%") /\ Without(user, "%") \notin DOMAIN v
         THEN [out |-> "no_corresponding_group", val |-> None,
               alias |-> Without(user, "%")]
         ELSE Err("invalid_user_id")

\* ExpandUser with a plausible fault: the aliases of the named group are
\* expanded as well
ExpandUser_two_hops(v, user) ==
    IF starts_with(user, "%")
    THEN AtUsers(v[Without(user, "%")])
            \cup UNION {AtUsers(v[Without(v[Without(user, "%")][i], "%")]) :
                        i \in {n \in 1..Len(v[Without(user, "%")]) :
                                 starts_with(v[Without(user, "%")][n], "%")}}
    ELSE {user}

ExpandUser(v, user) ==
    IF starts_with(user, "%") THEN AtUsers(v[Without(user, "%")]) ELSE {user}

\* the users of one group with a plausible fault: the set is made anew where
\* an alias is expanded, so what was inserted before the last alias is lost
expanded_users_reset(v, users) ==
    UNION {ExpandUser(v, users[i]) :
             i \in {n \in 1..Len(users) :
                      \A m \in (n + 1)..Len(users) : ~starts_with(users[m], "%")}}

expanded_users(v, users) == UNION {ExpandUser(v, users[i]) : i \in 1..Len(users)}

FirstCollectReturn(users) ==
    FirstReturn({i \in 1..Len(users) : CollectReturns(users[i])})

FirstExpandReturn(v, users) ==
    FirstReturn({i \in 1..Len(users) : ExpandReturns(v, users[i])})

\* users: the users of all groups in the order the loops meet them
GroupPingsOf(v, users) ==
    IF FirstCollectReturn(users) # 0
    THEN CollectErr(users[FirstCollectReturn(users)])
    ELSE IF FirstExpandReturn(v, users) # 0
         THEN ExpandErr(v, users[FirstExpandReturn(v, users)])
         ELSE Ok([group_pings |->
                     [group \in DOMAIN v |-> expanded_users(v, v[group])],
                  group_ping_users |-> AtUsers(users)])

\* order: the order in which the HashMap hands out its groups
load_group_ping_settings(t, order) ==
    IF t.group_pings # None
    THEN GroupPingsOf(t.group_pings[1], UsersIn(t.group_pings[1], order))
    ELSE Ok([group_pings |-> [group \in {} |-> {}], group_ping_users |-> {}])

GroupOrders(t) ==
    IF t.group_pings # None THEN Orders(t.group_pings[1]) ELSE {<<>>}

\* the Config value of a document all of whose rules succeed
ConfigOf(t, order) ==
    [mx_url |-> UriParse(t.url).val[1],
     mx_uname |-> t.username,
     mx_pass |-> t.password,
     gh_access_token |-> load_github_settings(t).val[1].gh_access_token,
     enable_unit_conversions |-> t.enable_unit_conversions,
     enable_corrections |-> t.enable_corrections,
     unit_conversion_exclusion |-> load_unit_conversion_settings(t),
     incorrect_spellings |-> load_spell_correct_settings(t).val[1].incorrect_spellings,
     correction_text |-> load_spell_correct_settings(t).val[1].correction_text,
     correction_exclusion |->
        load_spell_correct_settings(t).val[1].correction_exclusion,
     linkers |-> load_linker_settings(t).val[1].linkers,
     text_expansions |-> load_text_expansions(t),
     admins |-> load_admin_settings(t).val[1],
     help_rooms |-> load_help_settings(t),
     ban_rooms |-> load_ban_room_settings(t),
     repos |-> load_github_settings(t).val[1].repos,
     links |-> load_linker_settings(t).val[1].links,
     user_agent |-> HeaderValueFromStr(t.NAME \o <<"/">> \o t.VERSION).val[1],
     group_pings |-> load_group_ping_settings(t, order).val[1].group_pings,
     group_ping_users |-> load_group_ping_settings(t, order).val[1].group_ping_users,
     webhook_token |-> t.webhook_token]

\* Config::load_config(): every ? returns the first error met, in this order.
\* t.file: what opening, reading and deserializing config.toml came to
load_config(t, order) ==
    IF t.file # "ok"
    THEN Err(t.file)
    ELSE IF load_github_settings(t).out # "ok"
    THEN load_github_settings(t)
    ELSE IF load_linker_settings(t).out # "ok"
    THEN load_linker_settings(t)
    ELSE IF load_spell_correct_settings(t).out # "ok"
    THEN load_spell_correct_settings(t)
    ELSE IF load_admin_settings(t).out # "ok"
    THEN load_admin_settings(t)
    ELSE IF UriParse(t.url).out # "ok"
    THEN Err("invalid_homeserver_url")
    ELSE IF HeaderValueFromStr(t.NAME \o <<"/">> \o t.VERSION).out # "ok"
    THEN Err("invalid_user_agent")
    ELSE IF load_group_ping_settings(t, order).out # "ok"
    THEN load_group_ping_settings(t, order)
    ELSE Ok(ConfigOf(t, order))

-----------------------------------------------------------------------------
(* SpecConfig: the documents config.toml can hold.  A document is the      *)
(* sample configuration with up to MaxEdits of its sections rewritten.     *)

UserU == <<"@", "u", ":", "x">>

UserV == <<"@", "v", ":", "x">>

GroupA == <<"a">>

GroupB == <<"b">>

GoodUrl == <<"h", ":", "/", "/", "x">>

Urls == {GoodUrl, <<>>, <<"h", " ", "x">>}

MaxEdits == 1

SampleToml ==
    [file |-> "ok", NAME |-> <<"b", "o", "t">>, VERSION |-> <<"1">>,
     url |-> GoodUrl, username |-> UserU, password |-> "pw",
     authorized_users |-> Some({UserU}), help_rooms |-> None, ban_rooms |-> None,
     enable_unit_conversions |-> TRUE, enable_corrections |-> FALSE,
     unit_conversion_exclusion |-> None, insensitive_corrections |-> None,
     sensitive_corrections |-> None, correction_text |-> None,
     correction_exclusion |-> None, link_matchers |-> None,
     webhook_token |-> "wh", github_authentication |-> None,
     searchable_repos |-> None, linkable_urls |-> None,
     text_expansion |-> None, group_pings |-> None]

Opt(S) == {None} \cup {Some(x) : x \in S}

RoomSets == {{}, {<<"!", "a", ":", "x">>}}

GroupPingMaps ==
    {[g \in {} |-> <<>>],
     (GroupA :> <<UserU>>) @@ (GroupB :> <<<<"%", "a">>, UserV>>),
     (GroupA :> <<UserU, <<"%", "b">>>>) @@ (GroupB :> <<UserV, <<"%", "a">>>>),
     (GroupA :> <<PctAll>>),
     (GroupA :> <<UserU>>) @@ (GroupB :> <<<<"%", "m">>>>),
     (GroupA :> <<<<"u">>>>),
     (GroupA :> <<<<"@", "u">>>>),
     (GroupA :> <<<<"@", "u">>>>) @@ (GroupB :> <<PctAll>>),
     (GroupA :> <<PctAll>>) @@ (GroupB :> <<<<"%", "m">>>>),
     (GroupA :> <<UserU, <<"%", "b">>>>) @@ (GroupB :> <<<<"%", "c">>>>)
        @@ (<<"c">> :> <<UserV>>)}

\* the shapes a member of a group can have: two users, an alias of each
\* group, an alias of no group, the reserved name, a user without a server
\* name, and a string with neither prefix
Members ==
    {UserU, UserV, <<"%", "a">>, <<"%", "b">>, <<"%", "m">>, PctAll,
     <<"@", "u">>, <<"u">>}

MemberLists == {<<x>> : x \in Members} \cup {<<x, y>> : x, y \in Members}

\* group a with every list of one or two members, beside a group b
GroupPingPairs ==
    {(GroupA :> a) @@ (GroupB :> <<<<"%", "a">>, UserV>>) : a \in MemberLists}

Sections ==
    {"file", "build", "matrix_authentication", "github", "linker", "expansions",
     "spell_correct", "admins", "rooms", "group_pings"}

Options(section) ==
    CASE section = "file" ->
            {[file |-> f] : f \in {"ok", "unable_to_open", "unable_to_read",
                                   "invalid_toml"}}
      [] section = "build" ->
            {[VERSION |-> v] : v \in {<<"1">>, <<"1", "\n">>}}
      [] section = "matrix_authentication" ->
            {[url |-> u] : u \in Urls}
      [] section = "github" ->
            {[github_authentication |-> g, searchable_repos |-> r] :
                g \in Opt({[access_token |-> ""], [access_token |-> "ghp"]}),
                r \in Opt({EmptyStrMap, [k \in {"jf"} |-> "jellyfin/jellyfin"]})}
      [] section = "linker" ->
            {[linkable_urls |-> d, link_matchers |-> m] :
                d \in Opt({[k \in {} |-> <<>>]}
                          \cup {[k \in {"docs"} |-> u] : u \in Urls}),
                m \in Opt({{"link"}})}
      [] section = "expansions" ->
            {[text_expansion |-> e, unit_conversion_exclusion |-> u] :
                e \in Opt({[k \in {"jf"} |-> "Jellyfin"]}),
                u \in Opt({{<<"k", "m">>}})}
      [] section = "spell_correct" ->
            {[enable_corrections |-> b, insensitive_corrections |-> i,
              sensitive_corrections |-> s, correction_text |-> c,
              correction_exclusion |-> e] :
                b \in BOOLEAN, i \in Opt({<<>>, <<"jellyfish", "emby">>}),
                s \in Opt({<<"JF">>, <<"emby", "JF">>}), c \in Opt({"{} is {}"}),
                e \in Opt(RoomSets)}
      [] section = "admins" ->
            {[authorized_users |-> a] : a \in Opt({{}, {UserU}})}
      [] section = "rooms" ->
            {[help_rooms |-> h, ban_rooms |-> b] :
                h \in Opt(RoomSets), b \in Opt(RoomSets)}
      [] section = "group_pings" ->
            {[group_pings |-> g] : g \in Opt(GroupPingMaps \cup GroupPingPairs)}

RECURSIVE Edited(_)
Edited(n) ==
    IF n = 0
    THEN {SampleToml}
    ELSE UNION {{part @@ t : part \in Options(section)} :
                    t \in Edited(n - 1), section \in Sections}

NotCalled == [fn |-> "none", ret |-> None]

-----------------------------------------------------------------------------
(* SpecStore: the process and the file.                                    *)

RoomA == <<"!", "a", ":", "x">>

RoomB == <<"!", "b", ":", "x">>

Rooms == {RoomA, RoomB}

Tokens == {<<"a">>, <<"a", "b">>}

TimePoints == {0, 100, 100 + CooldownSecs - 1, 100 + CooldownSecs}

\* the rooms and clock readings of SpecStore, where every value is also a file
StoreRooms == {RoomA}

StoreTimes == {0, 100}

\* next_txn_id calls in one behaviour
MaxIssued == 3

\* saves in one behaviour that fail after they have changed the file
MaxTorn == 1

NotLoaded(k) == [loaded |-> FALSE, val |-> DefaultOf(k)]

Loaded(v) == [loaded |-> TRUE, val |-> v]

Result(op, out, path, val) ==
    [op |-> op, out |-> out, path |-> path, val |-> val, room |-> <<>>, at |-> 0]

\* records a previous run of the bot may have left
SeedValues(k) ==
    CASE k = "session"   -> {[access_token |-> Some(<<"a", "b">>)]}
      [] k = "listener"  -> {[last_sync |-> Some(<<"a">>),
                              last_correction_time |-> [r \in {RoomA} |-> 100]]}
      [] k = "responder" -> {[last_txn_id |-> U64(9)],
                             [last_txn_id |-> <<LimbBase - 2, LimbBase - 1,
                                                LimbBase - 1, LimbBase - 1>>]}

SeedDisks(k) ==
    {NoFile, FileOf(<<>>)}
        \cup {FileOf(RonToString(k, v, o)) : v \in SeedValues(k), o \in {<<RoomA>>}}

StoreInit ==
    /\ kind \in Kinds
    /\ disk \in SeedDisks(kind)
    /\ mem = NotLoaded(kind)
    /\ now = 0
    /\ res = Result("none", "ok", "none", None)
    /\ issued = <<>>
    /\ pending = {}
    /\ lostIds = {}
    /\ torn = 0
    /\ breach = FALSE
    /\ fresh = FALSE
    /\ toml = SampleToml
    /\ called = NotCalled
    /\ writer = <<>>

\* let storage = XStorage::load_storage()?  at startup
Load(open, sio) ==
    /\ ~mem.loaded
    /\ open \in OpenKinds(disk)
    /\ LET r == load_storage(disk, kind, open, sio)
       IN  /\ disk' = r.disk
           /\ mem' = IF r.out = "ok" THEN Loaded(r.val[1]) ELSE mem
           /\ res' = Result("load", r.out, r.path, r.val)
           /\ torn' = IF r.out # "ok" /\ r.disk # disk THEN torn + 1 ELSE torn
           /\ torn' <= MaxTorn
           /\ fresh' = IF r.path = "default" /\ r.out = "ok"
                       THEN TRUE
                       ELSE (fresh /\ r.disk = disk)
    /\ UNCHANGED <<kind, now, issued, pending, lostIds, breach>>
    /\ UNCHANGED <<configVars, writer>>

LoadStep ==
    \E open \in OpenKinds(disk) :
        \E sio \in (IF open = "not_found"
                    THEN SaveIo(RonToString(kind, DefaultOf(kind), <<>>))
                    ELSE {[ron |-> TRUE, open |-> TRUE, n |-> 0]}) :
            Load(open, sio)

\* storage.save_storage()
Save(ord, sio) ==
    /\ mem.loaded
    /\ LET r == save_storage(disk, kind, mem.val, ord, sio)
       IN  /\ disk' = r.disk
           /\ res' = Result("save", r.out, "none", None)
           /\ pending' = IF r.out = "ok" THEN {} ELSE pending
           /\ lostIds' = IF r.out = "ok" /\ pending # {} THEN {} ELSE lostIds
           /\ torn' = IF r.out # "ok" /\ r.disk # disk THEN torn + 1 ELSE torn
           /\ torn' <= MaxTorn
           /\ fresh' = (fresh /\ r.disk = disk)
    /\ UNCHANGED <<kind, mem, now, issued, breach>>
    /\ UNCHANGED <<configVars, writer>>

SaveStep ==
    /\ mem.loaded
    /\ \E ord \in OrdersOf(kind, mem.val) :
          \E sio \in SaveIo(RonToString(kind, mem.val, ord)) \cup RonIo(kind, mem.val) :
              Save(ord, sio)

\* let id = storage.next_txn_id()
\* the call of next_txn_id() with a plausible fault: it saves what it changed
NextTxnIdSaving(checks) ==
    /\ kind = "responder"
    /\ mem.loaded
    /\ Len(issued) < MaxIssued
    /\ next_txn_id(mem.val, checks).out = "ok"
    /\ mem' = Loaded(next_txn_id(mem.val, checks).self)
    /\ disk' = FileOf(RonToString(kind, next_txn_id(mem.val, checks).self, <<>>))
    /\ res' = Result("next_txn_id", "ok", "none", next_txn_id(mem.val, checks).id)
    /\ issued' = Append(issued, next_txn_id(mem.val, checks).id[1])
    /\ UNCHANGED <<kind, now, pending, lostIds, torn, breach, fresh>>
    /\ UNCHANGED <<configVars, writer>>

NextTxnId(checks) ==
    /\ kind = "responder"
    /\ mem.loaded
    /\ Len(issued) < MaxIssued
    /\ LET r == next_txn_id(mem.val, checks)
       IN  IF r.out = "panic"
           THEN /\ mem' = NotLoaded(kind)
                /\ res' = Result("next_txn_id", "panic", "none", None)
                /\ breach' = (breach \/ pending # {})
                /\ lostIds' = lostIds \cup pending
                /\ pending' = {}
                /\ UNCHANGED issued
           ELSE /\ mem' = Loaded(r.self)
                /\ res' = Result("next_txn_id", "ok", "none", r.id)
                /\ issued' = Append(issued, r.id[1])
                /\ pending' = pending \cup {r.id[1]}
                /\ UNCHANGED <<breach, lostIds>>
    /\ UNCHANGED <<kind, disk, now, torn, fresh>>
    /\ UNCHANGED <<configVars, writer>>

NextTxnIdStep == \E checks \in BOOLEAN : NextTxnId(checks)

\* storage.access_token = o
SetAccessToken(o) ==
    /\ kind = "session"
    /\ mem.loaded
    /\ mem' = Loaded([mem.val EXCEPT !.access_token = o])
    /\ res' = Result("set_access_token", "ok", "none", None)
    /\ UNCHANGED <<kind, disk, now, issued, pending, lostIds, torn, breach, fresh>>
    /\ UNCHANGED <<configVars, writer>>

\* storage.last_sync = Some(t)
SetLastSync(t) ==
    /\ kind = "listener"
    /\ mem.loaded
    /\ mem' = Loaded([mem.val EXCEPT !.last_sync = Some(t)])
    /\ res' = Result("set_last_sync", "ok", "none", None)
    /\ UNCHANGED <<kind, disk, now, issued, pending, lostIds, torn, breach, fresh>>
    /\ UNCHANGED <<configVars, writer>>

\* storage.last_correction_time.insert(room_id, SystemTime::now())
SetCorrectionTime(r) ==
    /\ kind = "listener"
    /\ mem.loaded
    /\ mem' = Loaded([mem.val EXCEPT !.last_correction_time =
                        Insert(mem.val.last_correction_time, r, now)])
    /\ res' = Result("set_correction_time", "ok", "none", None)
    /\ UNCHANGED <<kind, disk, now, issued, pending, lostIds, torn, breach, fresh>>
    /\ UNCHANGED <<configVars, writer>>

\* storage.correction_time_cooldown(room_id)
CheckCooldown(r) ==
    /\ kind = "listener"
    /\ mem.loaded
    /\ res' = [Result("correction_time_cooldown", "ok", "none",
                      Some(correction_time_cooldown(mem.val, r, now)))
                 EXCEPT !.room = r, !.at = now]
    /\ UNCHANGED <<kind, disk, mem, now, issued, pending, lostIds, torn, breach, fresh>>
    /\ UNCHANGED <<configVars, writer>>

\* the system clock moves, forwards or (when it is set) backwards
SetClock(t) ==
    /\ kind = "listener"
    /\ t # now
    /\ now' = t
    /\ UNCHANGED <<kind, disk, mem, res, issued, pending, lostIds, torn, breach, fresh>>
    /\ UNCHANGED <<configVars, writer>>

\* the process ends (exit, crash, kill); what was not saved is gone
Restart ==
    /\ mem.loaded
    /\ mem' = NotLoaded(kind)
    /\ breach' = (breach \/ pending # {})
    /\ lostIds' = lostIds \cup pending
    /\ pending' = {}
    /\ res' = Result("restart", "ok", "none", None)
    /\ UNCHANGED <<kind, disk, now, issued, torn, fresh>>
    /\ UNCHANGED <<configVars, writer>>

StoreNext ==
    \/ LoadStep
    \/ SaveStep
    \/ NextTxnIdStep
    \/ \E o \in {None} \cup {Some(t) : t \in Tokens} : SetAccessToken(o)
    \/ \E t \in Tokens : SetLastSync(t)
    \/ \E r \in StoreRooms : SetCorrectionTime(r)
    \/ \E t \in StoreTimes : SetClock(t)
    \/ Restart

SpecStore == StoreInit /\ [][StoreNext]_vars

-----------------------------------------------------------------------------
(* Properties of the persisted state store.                                *)

LoadErrors == {"err_permission_denied", "err_open", "err_read", "err_parse",
               "err_save_default"}

DefaultFile(k) == FileOf(RonToString(k, DefaultOf(k), <<>>))

NoDuplicates(ids) == \A i, j \in 1..Len(ids) : i # j => ids[i] # ids[j]

\* the decimal numeral that follows ds
RECURSIVE DecSucc(_)
DecSucc(ds) ==
    IF ds = <<>>
    THEN <<"1">>
    ELSE IF ds[Len(ds)] = "9"
         THEN Append(DecSucc(SubSeq(ds, 1, Len(ds) - 1)), "0")
         ELSE Append(SubSeq(ds, 1, Len(ds) - 1), DigitChar(DigitVal(ds[Len(ds)]) + 1))

\* C1: after a successful save(v) the file holds exactly the RON text of v,
\* whatever it held before, and parses back to v.
C1_SaveOverwrites ==
    (res.op = "save" /\ res.out = "ok") =>
        /\ disk.exists
        /\ \E o \in OrdersOf(kind, mem.val) : disk.bytes = RonToString(kind, mem.val, o)
        /\ RonFromStr(kind, disk.bytes) = [ok |-> TRUE, val |-> mem.val]

\* C1: where it fails: a save that returned Ok has left a file
\* that is longer than the text it wrote
C1_StaleTail ==
    /\ res.op = "save"
    /\ res.out = "ok"
    /\ \E o \in OrdersOf(kind, mem.val) :
          /\ StartsWith(disk.bytes, RonToString(kind, mem.val, o))
          /\ Len(disk.bytes) > Len(RonToString(kind, mem.val, o))
    /\ ~RonFromStr(kind, disk.bytes).ok

\* C2 as stated: a load that finds no record returns the default value and
\* leaves a record that holds the RON text of the default.
C2_MissingAlwaysDefault ==
    (res.op = "load" /\ res.path = "default") =>
        /\ res.out = "ok"
        /\ res.val = Some(DefaultOf(kind))
        /\ disk = DefaultFile(kind)

\* C2, amended: a load that finds no record either saves the default, returns
\* it and leaves exactly its RON text on disk, or (the default save failed)
\* returns that save error and no value; it never fails for the record being
\* missing.  A load of the record so created takes the found path and returns
\* the same default.
C2_LoadMissing ==
    [][ /\ (res'.op = "load" /\ res'.path = "default") =>
              \/ /\ res'.out = "ok"
                 /\ res'.val = Some(DefaultOf(kind))
                 /\ mem' = Loaded(DefaultOf(kind))
                 /\ disk' = DefaultFile(kind)
              \/ /\ res'.out = "err_save_default"
                 /\ res'.val = None
                 /\ ~mem'.loaded
        /\ (fresh /\ Load("ok", [ron |-> TRUE, open |-> TRUE, n |-> 0])) =>
              /\ res'.path = "found"
              /\ res'.out = "ok"
              /\ res'.val = Some(DefaultOf(kind))
              /\ disk' = disk
      ]_vars

\* C2: the record was created by a load, and the next load has read it back
C2_SecondLoadFound ==
    /\ fresh
    /\ res.op = "load"
    /\ res.path = "found"
    /\ res.out = "ok"
    /\ mem = Loaded(DefaultOf(kind))

\* C3: a load of a record whose content does not deserialize returns an
\* error and no value, and leaves the file as it was.
C3_CorruptIsFatal ==
    [][ (LoadStep /\ disk.exists /\ ~RonFromStr(kind, disk.bytes).ok) =>
            /\ res'.out \in LoadErrors
            /\ res'.val = None
            /\ ~mem'.loaded
            /\ disk' = disk
      ]_vars

\* C3: a load has failed on the content of an existing, unparseable record
C3_CorruptSeen ==
    /\ res.op = "load"
    /\ res.out = "err_parse"
    /\ disk.exists
    /\ disk.bytes # <<>>
    /\ ~mem.loaded

\* C4: when File::open answers PermissionDenied, load returns its own error
\* (not Ok, not the error of the default save), no value, and writes nothing;
\* the default is created only when File::open answers NotFound.
C4_DeniedIsFatal ==
    [][ /\ Load("permission_denied", [ron |-> TRUE, open |-> TRUE, n |-> 0]) =>
              /\ res'.out = "err_permission_denied"
              /\ res'.val = None
              /\ ~mem'.loaded
              /\ disk' = disk
        /\ (LoadStep /\ (res'.path = "default" \/ disk' # disk)) =>
              /\ ~disk.exists
              /\ \E sio \in SaveIo(RonToString(kind, DefaultOf(kind), <<>>)) :
                    Load("not_found", sio)
      ]_vars

\* C4: access was denied while no record existed, and none was created
C4_DeniedSeen ==
    /\ res.op = "load"
    /\ res.out = "err_permission_denied"
    /\ ~disk.exists
    /\ ~mem.loaded

C6_NextTxnId ==
    [][ NextTxnIdStep =>
            /\ res'.out = "ok"
            /\ res'.val = Some(DecSucc(U64ToString(mem.val.last_txn_id)))
            /\ mem'.loaded
            /\ U64ToString(mem'.val.last_txn_id) = DecSucc(U64ToString(mem.val.last_txn_id))
            /\ U64Less(mem.val.last_txn_id, mem'.val.last_txn_id)
      ]_vars

\* C6: the counter was at u64::MAX and next_txn_id was called
C6_Overflowed ==
    /\ res.op = "next_txn_id"
    /\ \/ res.out = "panic"
       \/ res.val = Some(<<"0">>)

\* C7: the file changes only in a save, or in a load that found no file; no
\* change of the in-memory value touches it.
C7_OnlySaveWrites ==
    [][ disk' # disk =>
            \/ res'.op = "save"
            \/ res'.op = "load" /\ ~disk.exists
      ]_vars

\* C7: the in-memory value has been changed and differs from what is on disk
C7_DirtyMemory ==
    /\ res.op \in {"next_txn_id", "set_access_token", "set_last_sync",
                   "set_correction_time"}
    /\ res.out = "ok"
    /\ mem.loaded
    /\ disk.exists
    /\ RonFromStr(kind, disk.bytes).ok
    /\ RonFromStr(kind, disk.bytes).val # mem.val

-----------------------------------------------------------------------------
(* SpecCooldown: a loaded ListenerStorage, the clock, and the cooldown     *)
(* query.                                                                  *)

CooldownInit ==
    /\ kind = "listener"
    /\ disk = NoFile
    /\ mem = Loaded(DefaultOf("listener"))
    /\ now = 0
    /\ res = Result("none", "ok", "none", None)
    /\ issued = <<>>
    /\ pending = {}
    /\ lostIds = {}
    /\ torn = 0
    /\ breach = FALSE
    /\ fresh = FALSE
    /\ toml = SampleToml
    /\ called = NotCalled
    /\ writer = <<>>

CooldownNext ==
    \/ \E r \in Rooms : SetCorrectionTime(r)
    \/ \E r \in Rooms : CheckCooldown(r)
    \/ \E t \in TimePoints : SetClock(t)

SpecCooldown == CooldownInit /\ [][CooldownNext]_vars

\* C8: correction_time_cooldown(R) is true when no timestamp is stored for
\* R; with one stored it is true exactly when at least 300 seconds have
\* passed since, and false when the timestamp lies in the future.
C8_Cooldown ==
    res.op = "correction_time_cooldown" =>
        LET m == mem.val.last_correction_time
        IN  /\ res.room \notin DOMAIN m => res.val = Some(TRUE)
            /\ res.room \in DOMAIN m =>
                  /\ m[res.room] > res.at => res.val = Some(FALSE)
                  /\ m[res.room] <= res.at =>
                        res.val = Some(res.at - m[res.room] >= 300)

\* C8: the query was made exactly 300 seconds after the stored timestamp
C8_AtTheLimit ==
    /\ res.op = "correction_time_cooldown"
    /\ res.room \in DOMAIN mem.val.last_correction_time
    /\ res.at - mem.val.last_correction_time[res.room] = 300
    /\ res.val = Some(TRUE)

-----------------------------------------------------------------------------
(* SpecConfig: the resolver applied to a document.                         *)

ConfigInit ==
    /\ kind = "session"
    /\ disk = NoFile
    /\ mem = NotLoaded("session")
    /\ now = 0
    /\ res = Result("none", "ok", "none", None)
    /\ issued = <<>>
    /\ pending = {}
    /\ lostIds = {}
    /\ torn = 0
    /\ breach = FALSE
    /\ fresh = FALSE
    /\ toml \in Edited(MaxEdits)
    /\ called = NotCalled
    /\ writer = <<>>

Call(fn, ret) ==
    /\ called' = [fn |-> fn, ret |-> ret]
    /\ UNCHANGED <<toml, storeVars, writer>>

LoadGithubSettings == Call("load_github_settings", load_github_settings(toml))

LoadLinkerSettings == Call("load_linker_settings", load_linker_settings(toml))

LoadTextExpansions == Call("load_text_expansions", load_text_expansions(toml))

LoadUnitConversionSettings ==
    Call("load_unit_conversion_settings", load_unit_conversion_settings(toml))

LoadSpellCorrectSettings ==
    Call("load_spell_correct_settings", load_spell_correct_settings(toml))

LoadAdminSettings == Call("load_admin_settings", load_admin_settings(toml))

LoadHelpSettings == Call("load_help_settings", load_help_settings(toml))

LoadBanRoomSettings == Call("load_ban_room_settings", load_ban_room_settings(toml))

LoadGroupPingSettings(order) ==
    Call("load_group_ping_settings", load_group_ping_settings(toml, order))

LoadConfig(order) == Call("load_config", load_config(toml, order))

ConfigNext ==
    \/ LoadGithubSettings
    \/ LoadLinkerSettings
    \/ LoadTextExpansions
    \/ LoadUnitConversionSettings
    \/ LoadSpellCorrectSettings
    \/ LoadAdminSettings
    \/ LoadHelpSettings
    \/ LoadBanRoomSettings
    \/ \E order \in GroupOrders(toml) : LoadGroupPingSettings(order)
    \/ \E order \in GroupOrders(toml) : LoadConfig(order)

SpecConfig == ConfigInit /\ [][ConfigNext]_vars

-----------------------------------------------------------------------------
(* Properties of the configuration resolver.                               *)

\* some rule of load_config fails on the document
RuleFails(t) ==
    \/ load_github_settings(t).out # "ok"
    \/ load_linker_settings(t).out # "ok"
    \/ load_spell_correct_settings(t).out # "ok"
    \/ load_admin_settings(t).out # "ok"
    \/ UriParse(t.url).out # "ok"
    \/ HeaderValueFromStr(t.NAME \o <<"/">> \o t.VERSION).out # "ok"
    \/ \E order \in GroupOrders(t) : load_group_ping_settings(t, order).out # "ok"

\* C9: load_config returns a Config only when every resolution rule
\* succeeded; when any one rule (GitHub, links, spellcheck, admins, homeserver
\* URL, user agent, group pings) fails, the load returns an error and no
\* Config value, whatever the other sections contain.
C9_AllOrNothing ==
    called.fn = "load_config" =>
        /\ called.ret.val # None => ~RuleFails(toml)
        /\ RuleFails(toml) =>
            /\ called.ret.out \notin {"ok", "panic"}
            /\ called.ret.val = None

\* a link rule that fails by panicking: load_config never returns
C9_LoadPanics ==
    /\ called.fn = "load_config"
    /\ RuleFails(toml)
    /\ called.ret.out = "panic"

\* C10: GitHub rule: with the repo map and the token both present, the
\* resolved map equals the input map, the resolved token equals the input
\* token and is non-empty; with the map present and the token absent,
\* resolution fails; with the map absent, the resolved map and token are both
\* empty, also when a token is present.
C10_GithubRule ==
    called.fn = "load_github_settings" =>
        /\ toml.searchable_repos # None /\ toml.github_authentication # None =>
            /\ called.ret.out = "ok"
            /\ called.ret.val[1].repos = toml.searchable_repos[1]
            /\ called.ret.val[1].gh_access_token =
                    toml.github_authentication[1].access_token
            /\ called.ret.val[1].gh_access_token # ""
        /\ toml.searchable_repos # None /\ toml.github_authentication = None =>
            /\ called.ret.out # "ok"
            /\ called.ret.val = None
        /\ toml.searchable_repos = None =>
            /\ called.ret.out = "ok"
            /\ called.ret.val[1].repos = EmptyStrMap
            /\ called.ret.val[1].gh_access_token = ""

\* repos with an empty access_token: accepted, and resolved to an empty token
C10_EmptyToken ==
    /\ called.fn = "load_github_settings"
    /\ toml.searchable_repos # None
    /\ toml.github_authentication = Some([access_token |-> ""])
    /\ called.ret.out = "ok"
    /\ called.ret.val[1].gh_access_token = ""

\* the link rule's outputs of a disabled feature
LinkerDisabled == Ok([linkers |-> {}, links |-> EmptyStrMap])

\* some URL of the linkable_urls section does not parse
BadLinkUrl(t) ==
    /\ t.linkable_urls # None
    /\ \E k \in DOMAIN t.linkable_urls[1] : UriParse(t.linkable_urls[1][k]).out # "ok"

\* C11: link rule: with the URL map (non-empty) and the matcher set both
\* present the rule succeeds with the matchers equal to the input set and a
\* link map that has the input's keys, and only then are its outputs those of
\* an enabled feature; with the URL map present and non-empty and the
\* matchers absent, or the URL map absent, it succeeds with both outputs
\* empty; with the URL map present but empty and matchers present it fails.
C11_LinkRule ==
    called.fn = "load_linker_settings" =>
        /\ (/\ toml.linkable_urls # None
            /\ toml.link_matchers # None
            /\ DOMAIN toml.linkable_urls[1] # {}) =>
                /\ called.ret.out = "ok"
                /\ called.ret.val[1].linkers = toml.link_matchers[1]
                /\ DOMAIN called.ret.val[1].links = DOMAIN toml.linkable_urls[1]
        /\ (called.ret.out = "ok" /\ called.ret # LinkerDisabled) =>
                toml.linkable_urls # None /\ toml.link_matchers # None
        /\ (\/ toml.linkable_urls = None
            \/ /\ toml.linkable_urls # None
               /\ DOMAIN toml.linkable_urls[1] # {}
               /\ toml.link_matchers = None) =>
                called.ret = LinkerDisabled
        /\ (/\ toml.linkable_urls # None
            /\ DOMAIN toml.linkable_urls[1] = {}
            /\ toml.link_matchers # None) =>
                /\ called.ret.out \notin {"ok", "panic"}
                /\ called.ret.val = None

\* C11: where it fails: URL map and matchers present, and no outputs at all
C11_EnabledWithoutOutputs ==
    /\ called.fn = "load_linker_settings"
    /\ toml.linkable_urls # None
    /\ toml.link_matchers # None
    /\ DOMAIN toml.linkable_urls[1] # {}
    /\ called.ret.val = None

\* C12: with the link feature enabled and a URL that does not parse, the
\* link rule returns an error to its caller, and load_config fails with an
\* error; neither aborts.
C12_BadUrlIsAnError ==
    (/\ called.fn \in {"load_linker_settings", "load_config"}
     /\ toml.file = "ok"
     /\ load_github_settings(toml).out = "ok"
     /\ toml.link_matchers # None
     /\ BadLinkUrl(toml)) =>
        /\ called.ret.out \notin {"ok", "panic"}
        /\ called.ret.val = None

\* C12: where it fails: the link rule has panicked on a URL
C12_LinkerPanics ==
    /\ called.fn = "load_linker_settings"
    /\ toml.link_matchers # None
    /\ BadLinkUrl(toml)
    /\ called.ret = Panic

\* C13: with enable_corrections = true the spellcheck rule succeeds exactly
\* when the insensitive list, the sensitive list and the correction text are
\* all present; otherwise it fails with the error of a field that is absent;
\* the exclusion set never makes it fail, and absent or empty resolves to
\* the empty set.
C13_SpellCheckRequired ==
    (called.fn = "load_spell_correct_settings" /\ toml.enable_corrections) =>
        /\ called.ret.out = "ok" <=>
              /\ toml.insensitive_corrections # None
              /\ toml.sensitive_corrections # None
              /\ toml.correction_text # None
        /\ called.ret.out \in {"ok", "no_insensitive_corrections",
                               "no_sensitive_corrections", "no_correction_text"}
        /\ called.ret.out = "no_insensitive_corrections" =>
              toml.insensitive_corrections = None
        /\ called.ret.out = "no_sensitive_corrections" =>
              toml.sensitive_corrections = None
        /\ called.ret.out = "no_correction_text" => toml.correction_text = None
        /\ called.ret.out # "ok" => called.ret.val = None
        /\ called.ret.out = "ok" =>
              called.ret.val[1].correction_exclusion =
                  IF toml.correction_exclusion = None
                  THEN {}
                  ELSE toml.correction_exclusion[1]

\* C13: corrections enabled, two fields absent, and the error is of one of them
C13_NamedAbsentField ==
    /\ called.fn = "load_spell_correct_settings"
    /\ toml.enable_corrections
    /\ toml.insensitive_corrections # None
    /\ toml.sensitive_corrections = None
    /\ toml.correction_text = None
    /\ toml.correction_exclusion = None
    /\ called.ret = Err("no_sensitive_corrections")

\* C14: with enable_corrections = false the spellcheck rule succeeds with an
\* empty spelling list, empty correction text and empty exclusion set,
\* whatever fields are present.
C14_SpellCheckDisabled ==
    (called.fn = "load_spell_correct_settings" /\ ~toml.enable_corrections) =>
        called.ret = Ok([incorrect_spellings |-> <<>>, correction_text |-> "",
                         correction_exclusion |-> {}])

\* C14: corrections disabled with all four fields present and not empty
C14_DisabledWithFields ==
    /\ called.fn = "load_spell_correct_settings"
    /\ ~toml.enable_corrections
    /\ toml.insensitive_corrections \notin {None, Some(<<>>)}
    /\ toml.sensitive_corrections # None
    /\ toml.correction_text # None
    /\ toml.correction_exclusion \notin {None, Some({})}
    /\ called.ret.out = "ok"

\* C15: when the spellcheck rule succeeds with corrections enabled, the
\* resolved sequence is the insensitive list in its order, tagged
\* insensitive, followed by the sensitive list in its order, tagged
\* sensitive, entry for entry, whether or not an exclusion set is present.
C15_SpellingOrder ==
    (/\ called.fn = "load_spell_correct_settings"
     /\ toml.enable_corrections
     /\ called.ret.out = "ok") =>
        LET i == toml.insensitive_corrections[1]
            s == toml.sensitive_corrections[1]
            r == called.ret.val[1].incorrect_spellings
        IN  /\ Len(r) = Len(i) + Len(s)
            /\ \A n \in 1..Len(i) :
                  r[n] = [kind |-> "SpellCheckInsensitive", spelling |-> i[n]]
            /\ \A n \in 1..Len(s) :
                  r[Len(i) + n] = [kind |-> "SpellCheckSensitive", spelling |-> s[n]]

\* C15: a resolved sequence of two insensitive and two sensitive entries,
\* one word in both lists, no exclusion set
C15_BothLists ==
    /\ called.fn = "load_spell_correct_settings"
    /\ toml.enable_corrections
    /\ toml.insensitive_corrections = Some(<<"jellyfish", "emby">>)
    /\ toml.sensitive_corrections = Some(<<"emby", "JF">>)
    /\ toml.correction_exclusion = None
    /\ called.ret.out = "ok"
    /\ Len(called.ret.val[1].incorrect_spellings) = 4

\* C16: admin rule: with the authorized-user set absent it fails; with the
\* set present, empty or not, it succeeds with the input set.
C16_AdminRule ==
    called.fn = "load_admin_settings" =>
        /\ toml.authorized_users = None =>
              /\ called.ret.out \notin {"ok", "panic"}
              /\ called.ret.val = None
        /\ toml.authorized_users # None =>
              called.ret = Ok(toml.authorized_users[1])

\* C16: the authorized-user set is present and empty, and the rule succeeded
C16_EmptyAdmins ==
    /\ called.fn = "load_admin_settings"
    /\ toml.authorized_users = Some({})
    /\ called.ret = Ok({})

\* the members of all groups of the document
MembersOf(t) ==
    IF t.group_pings # None
    THEN UNION {{t.group_pings[1][g][i] : i \in 1..Len(t.group_pings[1][g])} :
                g \in DOMAIN t.group_pings[1]}
    ELSE {}

\* C17: when any member of any group is the reserved name, the group-ping
\* rule fails with the reserved-name error, whatever the other groups and
\* members are (and so not with the error of an alias of a missing group).
C17_ReservedName ==
    (called.fn = "load_group_ping_settings" /\ PctAll \in MembersOf(toml)) =>
        called.ret = Err("reserved_group_name")

\* C17: where it fails: the reserved name is a member, and the error is that
\* of a user id
C17_ReservedNotReported ==
    /\ called.fn = "load_group_ping_settings"
    /\ PctAll \in MembersOf(toml)
    /\ called.ret = Err("invalid_user_id")

\* C18: when the group-ping rule succeeds, the resolved set of every group
\* is exactly the literal users of the group together with the literal users
\* of each group it names by an alias, as they stand in the raw mapping; the
\* users a named group reaches through its own aliases are not included.
\* The users that may ping are the literal users of all groups.
C18_SingleHop ==
    (/\ called.fn = "load_group_ping_settings"
     /\ toml.group_pings # None
     /\ called.ret.out = "ok") =>
        LET v == toml.group_pings[1]
            literal(g) == {v[g][i] : i \in {n \in 1..Len(v[g]) : v[g][n][1] = "@"}}
            named(g) == {h \in DOMAIN v : \E i \in 1..Len(v[g]) : v[g][i] = <<"%">> \o h}
        IN  /\ DOMAIN called.ret.val[1].group_pings = DOMAIN v
            /\ \A g \in DOMAIN v :
                  called.ret.val[1].group_pings[g] =
                      literal(g) \cup UNION {literal(h) : h \in named(g)}
            /\ called.ret.val[1].group_ping_users = UNION {literal(g) : g \in DOMAIN v}

\* C18: a names b, b names c: a has resolved without the user of c
C18_SecondHopLeftOut ==
    /\ called.fn = "load_group_ping_settings"
    /\ called.ret.out = "ok"
    /\ toml.group_pings # None
    /\ DOMAIN toml.group_pings[1] = {GroupA, GroupB, <<"c">>}
    /\ called.ret.val[1].group_pings[GroupA] = {UserU}
    /\ called.ret.val[1].group_pings[<<"c">>] = {UserV}

\* C19: when a group has an alias of a group that is no key of the raw
\* mapping, and the reserved name is no member, the group-ping rule fails
\* with the error that names that missing group, and returns no map.
C19_MissingGroup ==
    (/\ called.fn = "load_group_ping_settings"
     /\ PctAll \notin MembersOf(toml)
     /\ \E m \in MembersOf(toml) :
           starts_with(m, "%") /\ Without(m, "%") \notin DOMAIN toml.group_pings[1]) =>
        /\ called.ret.out = "no_corresponding_group"
        /\ called.ret.val = None
        /\ called.ret.alias \notin DOMAIN toml.group_pings[1]
        /\ <<"%">> \o called.ret.alias \in MembersOf(toml)

\* C19: where it fails: an alias of a missing group, no reserved name, and
\* the error is that of a user id and names no group
C19_MissingGroupNotNamed ==
    /\ called.fn = "load_group_ping_settings"
    /\ PctAll \notin MembersOf(toml)
    /\ \E m \in MembersOf(toml) :
          starts_with(m, "%") /\ Without(m, "%") \notin DOMAIN toml.group_pings[1]
    /\ called.ret = Err("invalid_user_id")

\* C20: a member that has neither the '@' nor the '%' prefix is ignored:
\* with every other member a user id or an alias of a group of the mapping,
\* the group-ping rule succeeds, and that member is in no resolved set and
\* not among the users that may ping.
C20_OtherMembersIgnored ==
    (/\ called.fn = "load_group_ping_settings"
     /\ \E m \in MembersOf(toml) : ~starts_with(m, "@") /\ ~starts_with(m, "%")
     /\ \A m \in MembersOf(toml) :
           \/ ~starts_with(m, "@") /\ ~starts_with(m, "%")
           \/ UserIdParse(m).out = "ok"
           \/ /\ starts_with(m, "%")
              /\ m # PctAll
              /\ Without(m, "%") \in DOMAIN toml.group_pings[1]) =>
        /\ called.ret.out = "ok"
        /\ \A m \in MembersOf(toml) :
              (~starts_with(m, "@") /\ ~starts_with(m, "%")) =>
                  /\ m \notin called.ret.val[1].group_ping_users
                  /\ \A g \in DOMAIN toml.group_pings[1] :
                        m \notin called.ret.val[1].group_pings[g]

\* C20: where it fails: the only member that is not a user id or an alias of
\* a group has neither prefix, and the rule has failed on it
C20_OtherMemberRefused ==
    /\ called.fn = "load_group_ping_settings"
    /\ toml.group_pings = Some(GroupA :> << <<"u">> >>)
    /\ called.ret = Err("invalid_user_id")

\* C22: whenever the group-ping rule succeeds, the users that may ping are
\* the union of the resolved sets of all groups: every user of a resolved set
\* (also one that came in through an alias) may ping, and every user that may
\* ping is in the resolved set of some group; without a group_pings section
\* the resolved mapping and the set of users are both empty.
C22_EligibleIsUnion ==
    (/\ called.fn = "load_group_ping_settings"
     /\ called.ret.out = "ok") =>
        LET r == called.ret.val[1]
        IN  /\ r.group_ping_users = UNION {r.group_pings[g] : g \in DOMAIN r.group_pings}
            /\ toml.group_pings = None =>
                  (DOMAIN r.group_pings = {} /\ r.group_ping_users = {})

\* a group has resolved to a user of its own and a user that came in through
\* an alias, and both may ping
C22_AliasUserEligible ==
    /\ called.fn = "load_group_ping_settings"
    /\ called.ret.out = "ok"
    /\ toml.group_pings # None
    /\ DOMAIN toml.group_pings[1] = {GroupA, GroupB}
    /\ toml.group_pings[1][GroupB] = <<<<"%", "a">>, UserV>>
    /\ toml.group_pings[1][GroupA] = <<UserU>>
    /\ called.ret.val[1].group_pings[GroupB] = {UserU, UserV}
    /\ called.ret.val[1].group_ping_users = {UserU, UserV}

-----------------------------------------------------------------------------
(* The failures of a save.                                                 *)

-----------------------------------------------------------------------------
(* Two calls of save_storage on one file.  Each call is a writer with its  *)
(* own value and its own file handle; the calls take their steps in any    *)
(* order.  Every step succeeds.                                            *)

\* write(2) of w through a handle whose offset is pos: the bytes go over what
\* is there and the file keeps what lies beyond them
WriteAt(d, pos, w) ==
    FileOf(SubSeq(d.bytes, 1, pos) \o w
               \o Drop(d.bytes, Min(pos + Len(w), Len(d.bytes))))

WritersInit ==
    /\ kind \in Kinds
    /\ disk \in SeedDisks(kind)
    /\ mem = NotLoaded(kind)
    /\ now = 0
    /\ res = Result("none", "ok", "none", None)
    /\ issued = <<>>
    /\ pending = {}
    /\ lostIds = {}
    /\ torn = 0
    /\ breach = FALSE
    /\ fresh = FALSE
    /\ toml = SampleToml
    /\ called = NotCalled
    /\ \E a, b \in {DefaultOf(kind)} \cup SeedValues(kind) :
          /\ a # b
          /\ writer = [w \in 1..2 |->
                          [pc |-> "start", self |-> IF w = 1 THEN a ELSE b,
                           ron |-> <<>>, pos |-> 0]]

\* let ron = ron::to_string(self)
WriterToString(w) ==
    /\ writer[w].pc = "start"
    /\ \E ord \in OrdersOf(kind, writer[w].self) :
          writer' = [writer EXCEPT ![w].pc = "formatted",
                                   ![w].ron = RonToString(kind, writer[w].self, ord)]
    /\ UNCHANGED <<storeVars, configVars>>

\* OpenOptions::new().write(true).create(true).open(path): the handle starts
\* at offset 0 and the file is made when it is missing
WriterOpen(w) ==
    /\ writer[w].pc = "formatted"
    /\ disk' = IF disk.exists THEN disk ELSE FileOf(<<>>)
    /\ writer' = [writer EXCEPT ![w].pc = "open", ![w].pos = 0]
    /\ UNCHANGED <<kind, mem, now, res, issued, pending, lostIds, torn, breach, fresh>>
    /\ UNCHANGED configVars

\* one write(2) of write_all: it takes the text up to byte n; write_all goes
\* on until the text is out, and save_storage returns Ok(())
WriterWrite(w, n) ==
    /\ writer[w].pc = "open"
    /\ n > writer[w].pos
    /\ disk' = WriteAt(disk, writer[w].pos, SubSeq(writer[w].ron, writer[w].pos + 1, n))
    /\ writer' = [writer EXCEPT ![w].pos = n,
                                ![w].pc = IF n = Len(writer[w].ron) THEN "done" ELSE "open"]
    /\ UNCHANGED <<kind, mem, now, res, issued, pending, lostIds, torn, breach, fresh>>
    /\ UNCHANGED configVars

WritersNext ==
    \/ \E w \in DOMAIN writer : WriterToString(w)
    \/ \E w \in DOMAIN writer : WriterOpen(w)
    \/ \E w \in DOMAIN writer :
          \E n \in TornCuts(writer[w].ron) \cup {Len(writer[w].ron)} : WriterWrite(w, n)

SpecWriters == WritersInit /\ [][WritersNext]_vars

\* C23: when two writers save two values to the same record at the same
\* time, then in every interleaving of their steps the record holds, once
\* both are done, exactly the serialization of one of the two values, and
\* never a mixture of bytes of both.
C23_LastWriterWins ==
    (\A w \in DOMAIN writer : writer[w].pc = "done") =>
        \E w \in DOMAIN writer : disk.bytes = writer[w].ron

\* both saves have returned Ok and the record is the text of neither: it
\* begins with the shorter text and ends with bytes of the longer one
C23_Mixture ==
    /\ DOMAIN writer = 1..2
    /\ \A w \in 1..2 : writer[w].pc = "done"
    /\ \A w \in 1..2 : disk.bytes # writer[w].ron
    /\ \E w \in 1..2 :
          /\ Len(writer[w].ron) < Len(writer[3 - w].ron)
          /\ disk.bytes = writer[w].ron
                 \o Drop(writer[3 - w].ron, Len(writer[w].ron))

=============================================================================
